---------------------------- MODULE Spec2Model ----------------------------
(***************************************************************************)
(* Model of src/code.js, the "Texting Block Insert" browser script.        *)
(*                                                                         *)
(* HTML and text are TLA+ strings, handled character by character, so the  *)
(* regular expressions of the script are modelled by what they match.      *)
(*                                                                         *)
(* Two state machines share the module:                                    *)
(*   FnSpec  the functions createTextingHTMLFromPlain (one step per line   *)
(*           of its for loop) and buildTextingBlock (one step per call);   *)
(*   Spec    the page: the DOM, the MutationObserver callback, the         *)
(*           initial pass and processNode (FairSpec adds the scheduling    *)
(*           of the observer's callback).                                  *)
(***************************************************************************)
EXTENDS Integers, Sequences, FiniteSets, TLC

VARIABLES
    \* ---- FnSpec: createTextingHTMLFromPlain / buildTextingBlock
    fpc,          \* "idle" | "scan" | "rendered" | "built"
    defaultChar,  \* argument defaultChar
    defaultUser,  \* argument defaultUser
    scanned,      \* the lines the for loop has consumed so far, in order
    lastSender,   \* local lastSender ("" stands for null: both are falsy)
    parts,        \* local parts: the message records
    htmlOut,      \* the value createTextingHTMLFromPlain returns
    innerArg,     \* the argument of the last buildTextingBlock call
    blockOut,     \* the value buildTextingBlock returned
    \* ---- Spec: the page
    trees,        \* the DOM: its root elements (attached and detached)
    pending,      \* added nodes recorded for the observer, not yet delivered
    timerFired,   \* setTimeout(initialPass, 500) has run
    hostAdds,     \* how many messages the host page rendered after load
    errors,       \* number of console.error calls
    writes,       \* number of assignments to innerHTML
    win,          \* the window globals the script reads
    events,       \* what the last handler did: one record per processNode call
    unvisited     \* nodes of the last handler's list it never reached

fnVars == <<fpc, defaultChar, defaultUser, scanned, lastSender, parts,
            htmlOut, innerArg, blockOut>>
domVars == <<trees, pending, timerFired, hostAdds, errors, writes, win, events,
             unvisited>>
vars == <<fpc, defaultChar, defaultUser, scanned, lastSender, parts,
          htmlOut, innerArg, blockOut,
          trees, pending, timerFired, hostAdds, errors, writes, win, events,
          unvisited>>

---------------------------------------------------------------------------
(* Bounds of the model *)

MaxLines == 3
MaxHostAdds == 1
MaxInitNodes == 1
MaxThrowAt == 2

---------------------------------------------------------------------------
(* Strings *)

Ch(s, i) == IF i >= 1 /\ i <= Len(s) THEN SubSeq(s, i, i) ELSE ""

Sub(s, i, j) == IF i > j THEN "" ELSE SubSeq(s, i, j)

From(s, i) == Sub(s, i, Len(s))

Min(S) == CHOOSE x \in S : \A y \in S : x <= y

Max(S) == CHOOSE x \in S : \A y \in S : x >= y

\* JavaScript white space that occurs in the model's texts
IsSpace(c) == c \in {" ", "\t", "\n", "\r"}

\* String.prototype.trim
Trim(s) ==
    LET idx == {i \in 1..Len(s) : ~IsSpace(Ch(s, i))}
    IN  IF idx = {} THEN "" ELSE Sub(s, Min(idx), Max(idx))

UpperLetters == "ABCDEFGHIJKLMNOPQRSTUVWXYZ"
LowerLetters == "abcdefghijklmnopqrstuvwxyz"
Digits == "0123456789"

UpperSet == {Ch(UpperLetters, i) : i \in 1..Len(UpperLetters)}

LowerOf ==
    [c \in UpperSet |->
        Ch(LowerLetters, CHOOSE i \in 1..Len(UpperLetters) : Ch(UpperLetters, i) = c)]

\* the lower-case form of the character c
LowerCh(c) == IF c \in UpperSet THEN LowerOf[c] ELSE c

RECURSIVE ToLowerCase(_)
\* String.prototype.toLowerCase
ToLowerCase(s) ==
    IF s = "" THEN "" ELSE LowerCh(Ch(s, 1)) \o ToLowerCase(From(s, 2))

\* \w of a regular expression
WordSet ==
    UpperSet \cup {Ch(LowerLetters, i) : i \in 1..Len(LowerLetters)}
             \cup {Ch(Digits, i) : i \in 1..Len(Digits)} \cup {"_"}

IsWord(c) == c \in WordSet

\* \b of a regular expression, between positions p-1 and p of s
WordBoundary(s, p) == IsWord(Ch(s, p - 1)) # IsWord(Ch(s, p))

\* pat occurs in s at position i (pat in lower case, s compared ignoring case)
AtCI(s, i, pat) ==
    /\ i >= 1
    /\ i + Len(pat) - 1 <= Len(s)
    /\ ToLowerCase(Sub(s, i, i + Len(pat) - 1)) = pat

\* pat occurs in s at position i
At(s, i, pat) ==
    /\ i >= 1
    /\ i + Len(pat) - 1 <= Len(s)
    /\ Sub(s, i, i + Len(pat) - 1) = pat

---------------------------------------------------------------------------
(* createTextingHTMLFromPlain *)

\* The outputs of formatTime(new Date()) the model draws from: the clock is
\* an input of the script.
Times == {"9:41 AM", "12:05 PM"}

\* The two non-ASCII characters of the templates, U+2022 and U+2194, are
\* written as ASCII characters that occur nowhere else in the model's texts.
Bullet == "*"
Arrow == "~"

\* . of a regular expression: any character but a line terminator
IsDot(c) == c \notin {"\n", "\r"}

\* The match of a line at the colon at position c (0: no colon), the first
\* group ending before it: [ok, name, text] with the two groups.  \s* is
\* greedy and gives back white space until (.+)$ matches what is left.
MatchAt(line, c) ==
    LET rest == From(line, c + 1)
        cuts == {j \in 0..(Len(rest) - 1) :
                    /\ \A i \in 1..j : IsSpace(Ch(rest, i))
                    /\ \A i \in (j + 1)..Len(rest) : IsDot(Ch(rest, i))}
    IN  IF c <= 1 \/ cuts = {}
        THEN [ok |-> FALSE, name |-> "", text |-> ""]
        ELSE [ok |-> TRUE, name |-> Sub(line, 1, c - 1),
              text |-> From(rest, Max(cuts) + 1)]

\* the positions of the colons of a line
Colons(line) == {i \in 1..Len(line) : Ch(line, i) = ":"}

\* MatchLine with the name running to the last colon
MatchLineLastColon(line) ==
    MatchAt(line, IF Colons(line) = {} THEN 0 ELSE Max(Colons(line)))

\* line.match(/^([^:]+):\s*(.+)$/): [^:]+ ends at the first colon
MatchLine(line) ==
    MatchAt(line, IF Colons(line) = {} THEN 0 ELSE Min(Colons(line)))

\* SideOf with the character tried before the user
SideOfCharFirst(name, dChar, dUser) ==
    IF dChar # "" /\ ToLowerCase(name) = ToLowerCase(dChar) THEN "left"
    ELSE IF dUser # "" /\ ToLowerCase(name) = ToLowerCase(dUser) THEN "right"
    ELSE "left"

\* the left/right decision
SideOf(name, dChar, dUser) ==
    IF dUser # "" /\ ToLowerCase(name) = ToLowerCase(dUser) THEN "right"
    ELSE IF dChar # "" /\ ToLowerCase(name) = ToLowerCase(dChar) THEN "left"
    ELSE "left"

\* RepeatMeta with the senders compared ignoring letter case
RepeatMetaIgnoringCase(last, name) ==
    ~(last # "" /\ ToLowerCase(last) = ToLowerCase(name))

\* the repeatMeta flag of a new message
RepeatMeta(last, name) == ~(last # "" /\ last = name)

\* Continue with the line appended after a space
ContinueAfterSpace(acc, line) ==
    IF acc.lastSender # "" /\ Len(acc.parts) > 0
    THEN [acc EXCEPT !.parts[Len(acc.parts)].text = @ \o " " \o line]
    ELSE acc

\* a continuation line: appended to the last message, if there is one
Continue(acc, line) ==
    IF acc.lastSender # "" /\ Len(acc.parts) > 0
    THEN [acc EXCEPT !.parts[Len(acc.parts)].text = @ \o "\n" \o line]
    ELSE acc

\* parts.push({ name, text, side, time, repeatMeta }); lastSender = name
Push(acc, name, text, dChar, dUser, time) ==
    [lastSender |-> name,
     parts |-> Append(acc.parts,
         [name |-> name, text |-> text,
          side |-> SideOf(name, dChar, dUser), time |-> time,
          repeatMeta |-> RepeatMeta(acc.lastSender, name)])]

\* the loop body for the trimmed, non-empty line and its match m
ScanMatch(acc, line, m, dChar, dUser, time) ==
    IF ~m.ok THEN Continue(acc, line)
    ELSE Push(acc, Trim(m.name), Trim(m.text), dChar, dUser, time)

\* One iteration of the for loop over lines; acc = [lastSender, parts].
ScanStep(acc, raw, dChar, dUser, time) ==
    IF Trim(raw) = "" THEN acc
    ELSE ScanMatch(acc, Trim(raw), MatchLine(Trim(raw)), dChar, dUser, time)

RECURSIVE EscapeHtml(_)
\* escapeHtml
EscapeHtml(s) ==
    IF s = "" THEN ""
    ELSE LET c == Ch(s, 1)
             e == IF c = "&" THEN "&amp;"
                  ELSE IF c = "<" THEN "&lt;"
                  ELSE IF c = ">" THEN "&gt;"
                  ELSE c
         IN  e \o EscapeHtml(From(s, 2))

\* the HTML of one message record
PartHtml(p) ==
    LET metaHtml ==
            IF p.repeatMeta
            THEN "<div class=\"meta\"><span class=\"name\">" \o EscapeHtml(p.name)
                 \o "</span><span class=\"dot\">" \o Bullet
                 \o "</span><span class=\"time\">"
                 \o p.time \o "</span></div>"
            ELSE ""
    IN  "<div class=\"message " \o p.side \o "\">" \o metaHtml
        \o "<div class=\"bubble " \o p.side \o "\">" \o EscapeHtml(p.text)
        \o "</div></div>"

RECURSIVE RenderParts(_)
\* htmlParts.join("\n")
RenderParts(ps) ==
    IF Len(ps) = 0 THEN ""
    ELSE IF Len(ps) = 1 THEN PartHtml(ps[1])
    ELSE PartHtml(ps[1]) \o "\n" \o RenderParts(Tail(ps))

RECURSIVE ScanAll(_, _, _, _, _)
\* the whole for loop, from accumulator acc
ScanAll(acc, lines, dChar, dUser, time) ==
    IF Len(lines) = 0 THEN acc
    ELSE ScanAll(ScanStep(acc, lines[1], dChar, dUser, time), Tail(lines),
                 dChar, dUser, time)

\* createTextingHTMLFromPlain(lines, defaultChar, defaultUser), every
\* message of the call stamped with the clock reading time
CreateTextingHTMLFromPlain(lines, dChar, dUser, time) ==
    RenderParts(ScanAll([lastSender |-> "", parts |-> <<>>], lines,
                        dChar, dUser, time).parts)

---------------------------------------------------------------------------
(* buildTextingBlock *)

\* The window globals the script reads; "" is an unset (falsy) global.
Windows ==
    { [active_character_name |-> "", active_character |-> "",
       current_character_name |-> "",
       main_api_user |-> "", userName |-> "", username |-> ""],
      [active_character_name |-> "", active_character |-> "noah",
       current_character_name |-> "n",
       main_api_user |-> "", userName |-> "Eden", username |-> "e"] }

\* a || b
Or(a, b) == IF a # "" THEN a ELSE b

GetCharacterOrPlaceholder(w) ==
    Or(w.active_character_name,
       Or(w.active_character, Or(w.current_character_name, "{{char}}")))

GetUserOrPlaceholder(w) ==
    Or(w.main_api_user, Or(w.userName, Or(w.username, "{{user}}")))

\* /\bclass=["']?(?:[^"'>]*\bchatbox\b|[^"'>]*\bchat-body\b)/i.test(s)
ChatboxTest(s) ==
    \E i \in 1..Len(s) :
        /\ WordBoundary(s, i)
        /\ AtCI(s, i, "class=")
        /\ \E j \in {i + 6} \cup (IF Ch(s, i + 6) \in {"\"", "'"} THEN {i + 7} ELSE {}) :
           \E k \in j..Len(s) :
              /\ \A x \in j..(k - 1) : Ch(s, x) \notin {"\"", "'", ">"}
              /\ WordBoundary(s, k)
              /\ \/ AtCI(s, k, "chatbox") /\ WordBoundary(s, k + 7)
                 \/ AtCI(s, k, "chat-body") /\ WordBoundary(s, k + 9)

\* /<[^>]+>/.test(s)
TagTest(s) ==
    \E i \in 1..Len(s) :
        /\ Ch(s, i) = "<"
        /\ Ch(s, i + 1) # ">"
        /\ \E j \in (i + 2)..Len(s) : Ch(s, j) = ">"

RECURSIVE SplitLinesCRLF(_)
\* SplitLines with the carriage return required: s.split(/\r\n/)
SplitLinesCRLF(s) ==
    LET nl == {i \in 2..Len(s) : Ch(s, i) = "\n" /\ Ch(s, i - 1) = "\r"}
    IN  IF nl = {} THEN <<s>>
        ELSE <<Sub(s, 1, Min(nl) - 2)>> \o SplitLinesCRLF(From(s, Min(nl) + 1))

RECURSIVE SplitLines(_)
\* s.split(/\r?\n/)
SplitLines(s) ==
    LET nl == {i \in 1..Len(s) : Ch(s, i) = "\n"}
    IN  IF nl = {} THEN <<s>>
        ELSE LET n == Min(nl)
                 e == IF Ch(s, n - 1) = "\r" THEN n - 2 ELSE n - 1
             IN  <<Sub(s, 1, e)>> \o SplitLines(From(s, n + 1))

RECURSIVE TrimAndFilter(_)
\* .map(l => l.trim()).filter(Boolean)
TrimAndFilter(ls) ==
    IF Len(ls) = 0 THEN <<>>
    ELSE IF Trim(ls[1]) = "" THEN TrimAndFilter(Tail(ls))
    ELSE <<Trim(ls[1])>> \o TrimAndFilter(Tail(ls))

\* the chatbox with its header around a chat-body
Chatbox(w, body) ==
    "<div class=\"texting-block\"><div class=\"chatbox\"><div class=\"header\"><strong>"
    \o GetCharacterOrPlaceholder(w) \o " " \o Arrow \o " " \o GetUserOrPlaceholder(w)
    \o "</strong></div><div class=\"chat-body\">" \o body \o "</div></div></div>"

\* Branch with the two tests in the other order
BranchTagFirst(innerHtml) ==
    IF TagTest(innerHtml) THEN "elements"
    ELSE IF ChatboxTest(innerHtml) THEN "wrap"
    ELSE "plain"

\* which return statement buildTextingBlock takes
Branch(innerHtml) ==
    IF ChatboxTest(innerHtml) THEN "wrap"
    ELSE IF TagTest(innerHtml) THEN "elements"
    ELSE "plain"

\* buildTextingBlock(innerHtml) under the globals w and the clock reading now
BuildTextingBlock(innerHtml, w, now) ==
    IF Branch(innerHtml) = "wrap"
    THEN "<div class=\"texting-block\">" \o innerHtml \o "</div>"
    ELSE IF Branch(innerHtml) = "elements"
    THEN Chatbox(w, innerHtml)
    ELSE Chatbox(w, CreateTextingHTMLFromPlain(
                        TrimAndFilter(SplitLines(innerHtml)),
                        GetCharacterOrPlaceholder(w), GetUserOrPlaceholder(w), now))

---------------------------------------------------------------------------
(* FnSpec: the two functions called directly *)

\* lines handed to createTextingHTMLFromPlain
LinePool ==
    { "noah: hi", "Noah: yo", " eden :a:b ", "ok then", "  ",
      ": lost", "noah:", "{{user}}: <b>&" }

\* (defaultChar, defaultUser) pairs; "" is an argument not given
ActorPool ==
    { <<"{{char}}", "{{user}}">>, <<"noah", "Eden">>, <<"noah", "NOAH">>,
      <<"noah", "">> }

\* inner contents handed to buildTextingBlock
InnerPool ==
    { "noah: hi\neden: yo\r\nok", "noah: hi\n\n  \nnoah: again", "just text",
      "", "a < b: c", "noah: <b>hi</b>", "1 < 2 > 1: x",
      "<div class=\"chatbox\"><div class=\"chat-body\">x</div></div>",
      "<div class='chat-body'>noah: hi</div>",
      "<p CLASS=\"my chatbox\">a</p>",
      "<div class=\"mychatbox\">a: b</div>",
      "see class=chatbox: yes" }

FnInit ==
    /\ fpc = "idle"
    /\ defaultChar = ""
    /\ defaultUser = ""
    /\ scanned = <<>>
    /\ lastSender = ""
    /\ parts = <<>>
    /\ htmlOut = ""
    /\ innerArg = ""
    /\ blockOut = ""

\* createTextingHTMLFromPlain is entered
CallCreate ==
    /\ fpc = "idle"
    /\ \E a \in ActorPool :
          /\ defaultChar' = a[1]
          /\ defaultUser' = a[2]
    /\ fpc' = "scan"
    /\ UNCHANGED <<scanned, lastSender, parts, htmlOut, innerArg, blockOut>>

\* the locals of the loop after an iteration
Loop(acc) ==
    /\ lastSender' = acc.lastSender
    /\ parts' = acc.parts

\* one iteration of its for loop
ScanLine ==
    /\ fpc = "scan"
    /\ Len(scanned) < MaxLines
    /\ \E raw \in LinePool, t \in Times :
          /\ scanned' = Append(scanned, raw)
          /\ Loop(ScanStep([lastSender |-> lastSender, parts |-> parts],
                           raw, defaultChar, defaultUser, t))
    /\ UNCHANGED <<fpc, defaultChar, defaultUser, htmlOut, innerArg, blockOut>>

\* the loop is over: the HTML is built and returned
Render ==
    /\ fpc = "scan"
    /\ htmlOut' = RenderParts(parts)
    /\ fpc' = "rendered"
    /\ UNCHANGED <<defaultChar, defaultUser, scanned, lastSender, parts,
                   innerArg, blockOut>>

\* one call of buildTextingBlock
CallBuild ==
    /\ fpc = "idle"
    /\ \E inner \in InnerPool, w \in Windows, t \in Times :
          /\ innerArg' = inner
          /\ defaultChar' = GetCharacterOrPlaceholder(w)
          /\ defaultUser' = GetUserOrPlaceholder(w)
          /\ blockOut' = BuildTextingBlock(inner, w, t)
    /\ fpc' = "built"
    /\ UNCHANGED <<scanned, lastSender, parts, htmlOut>>

FnNext ==
    \/ CallCreate /\ UNCHANGED domVars
    \/ ScanLine /\ UNCHANGED domVars
    \/ Render /\ UNCHANGED domVars
    \/ CallBuild /\ UNCHANGED domVars

---------------------------------------------------------------------------
(* The DOM.  An element's content is its innerHTML string; its child       *)
(* elements are the elements that string parses to.  The strings of the    *)
(* model are well-formed and made of text and of elements <tag> or         *)
(* <tag class="..."> with their closing tags, which the parser and the     *)
(* serializer of a browser leave as they are.                              *)
(* A node is named by a reference [t, path]: the root element trees[t] and *)
(* the child indexes leading down from it.                                 *)

\* position of the first c in s at or after pos (0: none)
IndexFrom(s, c, pos) ==
    IF \E i \in pos..Len(s) : Ch(s, i) = c
    THEN CHOOSE i \in pos..Len(s) :
            Ch(s, i) = c /\ \A j \in pos..(i - 1) : Ch(s, j) # c
    ELSE 0

RECURSIVE CloseFrom(_, _, _)
\* the "<" of the closing tag that matches an open tag: lt is the first "<"
\* after the open tag, depth counts the elements opened since
CloseFrom(s, lt, depth) ==
    IF lt = 0 THEN 0
    ELSE IF Ch(s, lt + 1) = "/"
    THEN IF depth = 0 THEN lt
         ELSE CloseFrom(s, IndexFrom(s, "<", lt + 1), depth - 1)
    ELSE CloseFrom(s, IndexFrom(s, "<", lt + 1), depth + 1)

\* the tag name of the open tag text t = "<name ...>"
TagName(t) ==
    Sub(t, 2, Min({i \in 2..Len(t) : Ch(t, i) \in {" ", ">"}}) - 1)

\* the value of the class attribute of the open tag text t ("" if none)
ClassAttr(t) ==
    IF \E i \in 1..Len(t) : At(t, i, " class=\"")
    THEN Sub(t, Min({i \in 1..Len(t) : At(t, i, " class=\"")}) + 8,
             IndexFrom(t, "\"", Min({i \in 1..Len(t) : At(t, i, " class=\"")}) + 8) - 1)
    ELSE ""

\* the element with open tag s[o..gt] and closing tag at c:
\* [tag, cls, is, ie]: tag name, class attribute, first and last position
\* of the element's inner HTML
Element(s, o, gt, c) ==
    [tag |-> TagName(Sub(s, o, gt)), cls |-> ClassAttr(Sub(s, o, gt)),
     is |-> gt + 1, ie |-> c - 1]

RECURSIVE ElementsOpenedAt(_, _)
\* the top-level elements of s from the open tag at o on (0: none), in order
ElementsOpenedAt(s, o) ==
    IF o = 0 THEN <<>>
    ELSE LET c == CloseFrom(s, IndexFrom(s, "<", o + 1), 0)
         IN  <<Element(s, o, IndexFrom(s, ">", o), c)>>
             \o ElementsOpenedAt(s, IndexFrom(s, "<", c + 1))

\* the child elements of an element whose inner HTML is s
Elements(s) == ElementsOpenedAt(s, IndexFrom(s, "<", 1))

RECURSIVE ClassSet(_)
\* the class names of a class attribute value
ClassSet(v) ==
    IF v = "" THEN {}
    ELSE IF IndexFrom(v, " ", 1) = 0 THEN {v}
    ELSE (IF IndexFrom(v, " ", 1) = 1 THEN {} ELSE {Sub(v, 1, IndexFrom(v, " ", 1) - 1)})
         \cup ClassSet(From(v, IndexFrom(v, " ", 1) + 1))

\* classList holds one of names
HasClass(cls, names) == ClassSet(cls) \cap names # {}

\* the child e of element el = [tag, cls, html, mesAnc] (mesAnc: an
\* ancestor has class mes)
Child(el, e) ==
    [tag |-> e.tag, cls |-> e.cls, html |-> Sub(el.html, e.is, e.ie),
     mesAnc |-> el.mesAnc \/ HasClass(el.cls, {"mes"})]

RECURSIVE Resolve(_, _, _)
\* the element path leads to from element el, from step k on
Resolve(el, path, k) ==
    IF k > Len(path) THEN el
    ELSE Resolve(Child(el, Elements(el.html)[path[k]]), path, k + 1)

\* the element a reference names
NodeAt(tr, ref) ==
    Resolve([tag |-> tr[ref.t].tag, cls |-> tr[ref.t].cls,
             html |-> tr[ref.t].html, mesAnc |-> FALSE], ref.path, 1)

\* el.innerHTML
InnerHTML(tr, ref) == NodeAt(tr, ref).html

RECURSIVE Splice(_, _, _, _)
\* html with the inner HTML of the element at path replaced by new
Splice(html, path, k, new) ==
    IF k > Len(path) THEN new
    ELSE LET e == Elements(html)[path[k]]
         IN  Sub(html, 1, e.is - 1)
             \o Splice(Sub(html, e.is, e.ie), path, k + 1, new)
             \o From(html, e.ie + 1)

RECURSIVE DescendantsIn(_, _, _, _, _)
\* the descendants, in document order, found in and under the elements
\* es[i], es[i+1], ... of html: [path, tag, cls, mesAnc]
DescendantsIn(html, es, base, mesAnc, i) ==
    IF i > Len(es) THEN <<>>
    ELSE <<[path |-> Append(base, i), tag |-> es[i].tag, cls |-> es[i].cls,
            mesAnc |-> mesAnc]>>
         \o DescendantsIn(Sub(html, es[i].is, es[i].ie),
                          Elements(Sub(html, es[i].is, es[i].ie)),
                          Append(base, i),
                          mesAnc \/ HasClass(es[i].cls, {"mes"}), 1)
         \o DescendantsIn(html, es, base, mesAnc, i + 1)

\* the descendant elements of the element n, whose path is base
DescendantsUnder(n, base) ==
    DescendantsIn(n.html, Elements(n.html), base,
                  n.mesAnc \/ HasClass(n.cls, {"mes"}), 1)

\* the descendants of the node ref names
DescendantsOf(tr, ref) == DescendantsUnder(NodeAt(tr, ref), ref.path)

---------------------------------------------------------------------------
\* processNode: the two regular expressions, as the regex literals of the
\* source read.  In a regex literal \\ is one literal backslash, so, with
\* O = [\[texing], C = [\[/texing] and G = [\sS] (character classes):
\*   reBlock  =  \ O \ ]  (G, lazy)  \ C \ ]       flags g, i
\*   reSingle =  \ O \ ] \  s...  (G, greedy)      flag i
\* every character outside the classes and the group being literal.

\* the class [\\[texting\\] under flag i
InOpenClass(c) == LowerCh(c) \in {"\\", "[", "t", "e", "x", "i", "n", "g"}

\* the class [\\[\\/texting\\] under flag i
InCloseClass(c) == LowerCh(c) \in {"\\", "[", "/", "t", "e", "x", "i", "n", "g"}

\* the class [\\s\\S] under flag i
InInnerClass(c) == c \in {"\\", "s", "S"}

\* \\[\\[texting\\]\\] matches at position i
OpenAt(s, i) ==
    /\ Ch(s, i) = "\\"
    /\ InOpenClass(Ch(s, i + 1))
    /\ Ch(s, i + 2) = "\\"
    /\ Ch(s, i + 3) = "]"

\* \\[\\[\\/texting\\]\\] matches at position i
CloseAt(s, i) ==
    /\ Ch(s, i) = "\\"
    /\ InCloseClass(Ch(s, i + 1))
    /\ Ch(s, i + 2) = "\\"
    /\ Ch(s, i + 3) = "]"

\* c is in the class named: "s" for \\s* (the letter s, flag i), "inner"
\* for [\\s\\S]
InClass(c, class) == IF class = "s" THEN LowerCh(c) = "s" ELSE InInnerClass(c)

\* the length of the run of characters of a class starting at pos
RunLen(s, pos, class) ==
    CHOOSE k \in 0..Len(s) :
        /\ ~InClass(Ch(s, pos + k), class)
        /\ \A j \in 0..(k - 1) : InClass(Ch(s, pos + j), class)

\* the lengths the group of reBlock can take in a match starting at i
BlockLens(s, i) ==
    {k \in 0..RunLen(s, i + 4, "inner") : CloseAt(s, i + 4 + k)}

\* reBlock matches at position i
BlockMatchAt(s, i) == OpenAt(s, i) /\ BlockLens(s, i) # {}

\* reBlock.test(html)
BlockTest(s) == \E i \in 1..Len(s) : BlockMatchAt(s, i)

\* reSingle matches at position i
SingleAt(s, i) == OpenAt(s, i) /\ Ch(s, i + 4) = "\\"

\* reSingle.test(html)
SingleTest(s) == \E i \in 1..Len(s) : SingleAt(s, i)

RECURSIVE ReplaceBlock(_, _, _, _)
\* the match of reBlock at i with a group of length k replaced, and the
\* matches after it
ReplaceBlockAt(s, pos, i, k, w, now) ==
    Sub(s, pos, i - 1)
    \o BuildTextingBlock(Trim(Sub(s, i + 4, i + 3 + k)), w, now)
    \o ReplaceBlock(s, i + 8 + k, w, now)

\* the start of the first match of reBlock at or after pos
FirstBlock(s, pos) == Min({i \in pos..Len(s) : BlockMatchAt(s, i)})

\* html.replace(reBlock, (_, inner) => buildTextingBlock(inner.trim())),
\* from position pos on: every match, left to right, the group lazy
ReplaceBlock(s, pos, w, now) ==
    IF \E i \in pos..Len(s) : BlockMatchAt(s, i)
    THEN ReplaceBlockAt(s, pos, FirstBlock(s, pos),
                        Min(BlockLens(s, FirstBlock(s, pos))), w, now)
    ELSE From(s, pos)

\* the match of reSingle at i replaced: its group, greedy, starts at a
ReplaceSingleAt(s, i, a, w, now) ==
    LET b == a + RunLen(s, a, "inner") - 1
    IN  Sub(s, 1, i - 1) \o BuildTextingBlock(Trim(Sub(s, a, b)), w, now)
        \o From(s, b + 1)

\* the start of the first match of reSingle
FirstSingle(s) == Min({i \in 1..Len(s) : SingleAt(s, i)})

\* the first position of the group of reSingle in its match at i, after
\* the greedy s*
GroupStart(s, i) == i + 5 + RunLen(s, i + 5, "s")

\* html.replace(reSingle, (_, inner) => buildTextingBlock(inner.trim())):
\* the first match only
ReplaceSingle(s, w, now) ==
    ReplaceSingleAt(s, FirstSingle(s), GroupStart(s, FirstSingle(s)), w, now)

\* the value of `replaced` for an element whose innerHTML is html
Replaced(html, w, now) ==
    IF BlockTest(html) THEN ReplaceBlock(html, 1, w, now)
    ELSE IF SingleTest(html) THEN ReplaceSingle(html, w, now)
    ELSE html

---------------------------------------------------------------------------
(* processNode, the observer callback and the initial pass.  A handler     *)
(* runs to completion; its run is computed on a record st:                 *)
(*   trees, pending   the DOM and the records queued for the observer      *)
(*   work, cands      the nodes and the candidates still to visit          *)
(*   mode             "observer" or "initial"                              *)
(*   calls            one record per processNode call                      *)
(*   visits, throwAt  the throwAt-th candidate visit raises an exception   *)
(*   uncaught         an exception is on its way out of the handler        *)

\* the classes of the selector list of processNode ('.mes p' apart)
TextClasses ==
    {"mes_text", "mes__text", "mes__body", "mes", "message__text", "st-block", "text"}

\* the classes the observer callback looks for
ObserverClasses == {"mes", "mes_text", "st-block", "message"}

\* the classes of the selector list of initialPass
InitialClasses == {"mes", "mes_text", "st-block", "message", "mes__text", "mes__body"}

\* d matches '.mes_text, .mes__text, .mes__body, .mes p, .mes,
\* .message__text, .st-block, .text'
MatchesText(d) == HasClass(d.cls, TextClasses) \/ (d.tag = "p" /\ d.mesAnc)

\* d matches the selector list of initialPass
MatchesInitial(d) == HasClass(d.cls, InitialClasses)

\* the references of the descendants ds of the tree t
Refs(t, ds) == [i \in 1..Len(ds) |-> [t |-> t, path |-> ds[i].path]]

\* textEls && textEls.length ? textEls : [node]
OrSelf(node, textEls) ==
    IF Len(textEls) > 0 THEN Refs(node.t, textEls) ELSE <<node>>

\* the candidates of processNode(node)
Candidates(tr, node) ==
    OrSelf(node, SelectSeq(DescendantsOf(tr, node), MatchesText))

\* n.querySelector finds one of the observer's classes among ds
AnyHas(ds, names) == \E i \in 1..Len(ds) : HasClass(ds[i].cls, names)

\* the test of the observer callback on an added element n
ObserverWants(tr, n) ==
    \/ HasClass(NodeAt(tr, n).cls, ObserverClasses)
    \/ AnyHas(DescendantsOf(tr, n), ObserverClasses)

\* q names a node strictly below the element r names
Below(q, r) ==
    /\ q.t = r.t
    /\ Len(q.path) > Len(r.path)
    /\ SubSeq(q.path, 1, Len(r.path)) = r.path

\* the children of r under which a reference of lives names a node
LiveKids(lives, r) ==
    {lives[x].path[Len(r.path) + 1] : x \in {y \in 1..Len(lives) : Below(lives[y], r)}}

\* the rank of child i among the children idxs
Rank(idxs, i) == Cardinality({j \in idxs : j <= i})

\* the child e of an element with inner HTML old, out of the document
Limb(old, e, observed) ==
    [tag |-> e.tag, cls |-> e.cls, html |-> Sub(old, e.is, e.ie),
     attached |-> FALSE, observed |-> observed]

\* the children idxs, of kids, as roots of trees of their own
Limbs(old, kids, idxs, observed) ==
    [x \in 1..Cardinality(idxs) |->
        Limb(old, kids[CHOOSE j \in idxs : Rank(idxs, j) = x], observed)]

\* the reference q once the children idxs of r are the trees n+1, n+2, ...
Repoint(q, r, idxs, n) ==
    IF Below(q, r)
    THEN [t |-> n + Rank(idxs, q.path[Len(r.path) + 1]),
          path |-> SubSeq(q.path, Len(r.path) + 2, Len(q.path))]
    ELSE q

RepointAll(seq, r, idxs, n) == [i \in 1..Len(seq) |-> Repoint(seq[i], r, idxs, n)]

\* the records of the child elements a write of new to r adds: the observer
\* is told when r is in the document or left it during this handler
Added(tr, r, new) ==
    IF tr[r.t].observed
    THEN [j \in 1..Len(Elements(new)) |-> [t |-> r.t, path |-> Append(r.path, j)]]
    ELSE <<>>

\* el.innerHTML = new for the element r, whose inner HTML was old and whose
\* children idxs are still named by a list of the handler or a queued
\* record: these leave the document with their content, as roots of
\* detached trees
Detach(st, r, new, old, idxs) ==
    [st EXCEPT !.trees = [st.trees EXCEPT ![r.t].html = Splice(@, r.path, 1, new)]
                         \o Limbs(old, Elements(old), idxs, st.trees[r.t].observed),
               !.work = RepointAll(@, r, idxs, Len(st.trees)),
               !.cands = RepointAll(@, r, idxs, Len(st.trees)),
               !.pending = RepointAll(@, r, idxs, Len(st.trees))
                           \o Added(st.trees, r, new),
               !.writes = @ + 1]

\* el.innerHTML = new, for the element r names
Write(st, r, new) ==
    Detach(st, r, new, InnerHTML(st.trees, r),
           LiveKids(st.work \o st.cands \o st.pending, r))

\* a visit is added to the record of the current processNode call
Visited(st, before, after, wrote) ==
    [st EXCEPT !.calls[Len(st.calls)].visited =
                   Append(@, [before |-> before, after |-> after, wrote |-> wrote])]

\* Assign without the comparison: el.innerHTML = replaced
AssignAlways(st, el, html, replaced) ==
    Visited(Write(st, el, replaced), html, replaced, TRUE)

\* if (replaced !== html) { el.innerHTML = replaced; }
Assign(st, el, html, replaced) ==
    IF replaced # html
    THEN Visited(Write(st, el, replaced), html, replaced, TRUE)
    ELSE Visited(st, html, replaced, FALSE)

\* the forEach callback for el, whose innerHTML is html
Examine(st, el, html) ==
    IF html = "" THEN Visited(st, html, html, FALSE)
    ELSE Assign(st, el, html, Replaced(html, st.win, st.now))

\* an exception is raised while the element with innerHTML html is handled
Throw(st, html) ==
    [st EXCEPT !.uncaught = TRUE,
               !.calls[Len(st.calls)].threw = TRUE,
               !.calls[Len(st.calls)].failed = html,
               !.calls[Len(st.calls)].atThrow = st.trees]

\* Catch with the exception thrown again after the log
CatchRethrowing(st) ==
    [st EXCEPT !.errors = @ + 1, !.calls[Len(st.calls)].logged = TRUE]

\* catch (e) { console.error(...) }: the forEach of this call is over and
\* processNode returns
Catch(st) ==
    [st EXCEPT !.uncaught = FALSE,
               !.errors = @ + 1,
               !.cands = <<>>,
               !.calls[Len(st.calls)].logged = TRUE,
               !.calls[Len(st.calls)].atReturn = st.trees]

\* the first candidate left is taken
Take(st) == [st EXCEPT !.cands = Tail(@), !.visits = @ + 1]

\* the body of candidates.forEach for the first candidate left
Visit(st) ==
    IF st.visits + 1 = st.throwAt
    THEN Catch(Throw(Take(st), InnerHTML(st.trees, Head(st.cands))))
    ELSE Examine(Take(st), Head(st.cands), InnerHTML(st.trees, Head(st.cands)))

\* processNode(node) is entered with its candidates
Enter(st, cands) ==
    [st EXCEPT !.work = Tail(@),
               !.cands = cands,
               !.calls = Append(@, [candidates |-> Len(cands), visited |-> <<>>,
                                    threw |-> FALSE, logged |-> FALSE,
                                    failed |-> "", atThrow |-> <<>>,
                                    atReturn |-> <<>>])]

\* the next node of the handler's loop: processNode(node) is entered, or,
\* in the observer callback, the node is passed over
NextNode(st) ==
    IF st.mode = "observer" /\ ~ObserverWants(st.trees, Head(st.work))
    THEN [st EXCEPT !.work = Tail(@)]
    ELSE Enter(st, Candidates(st.trees, Head(st.work)))

RECURSIVE Run(_)
\* the handler, to its end
Run(st) ==
    IF st.uncaught THEN st
    ELSE IF Len(st.cands) > 0 THEN Run(Visit(st))
    ELSE IF Len(st.work) > 0 THEN Run(NextNode(st))
    ELSE st

\* the elements of the attached tree t the selector list of initialPass
\* matches, in document order
InitialIn(tr, t) ==
    (IF HasClass(tr[t].cls, InitialClasses) THEN <<[t |-> t, path |-> <<>>]>> ELSE <<>>)
    \o Refs(t, SelectSeq(DescendantsOf(tr, [t |-> t, path |-> <<>>]), MatchesInitial))

RECURSIVE AllInitialFrom(_, _)
AllInitialFrom(tr, t) ==
    IF t > Len(tr) THEN <<>>
    ELSE (IF tr[t].attached THEN InitialIn(tr, t) ELSE <<>>)
         \o AllInitialFrom(tr, t + 1)

\* the static list document.querySelectorAll(...) of initialPass
AllInitial(tr) == AllInitialFrom(tr, 1)

\* a handler starts: removed nodes of earlier handlers are no longer observed
Start(mode, work, throwAt, now) ==
    [trees |-> [t \in 1..Len(trees) |-> [trees[t] EXCEPT !.observed = trees[t].attached]],
     pending |-> <<>>, work |-> work, cands |-> <<>>, mode |-> mode,
     errors |-> errors, writes |-> writes, calls |-> <<>>,
     visits |-> 0, throwAt |-> throwAt, uncaught |-> FALSE, win |-> win, now |-> now]

---------------------------------------------------------------------------
(* Spec: the page *)

Root(cls, html) ==
    [tag |-> "div", cls |-> cls, html |-> html, attached |-> TRUE, observed |-> TRUE]

\* the message elements the host page renders
NodePool ==
    { Root("mes_text", "[[texting]]noah: hi[[/texting]]"),
      Root("mes_text", "hello [[Texting]] noah: hi"),
      Root("mes_text", "plain words"),
      Root("mes_text", ""),
      Root("mes_text", "see \\[\\]\\[\\] here"),
      Root("mes", "a\\t\\]\\b\\T\\]\\sc"),
      Root("mes", "x\\[\\]\\<div class=\"message\">y\\[\\]\\</div>"),
      Root("wrap", "<div class=\"mes_text\">\\[\\]\\</div><div class=\"mes_text\">\\[\\]\\[\\]</div>"),
      Root("mes", "<p>hi \\[\\]\\</p>") }

RECURSIVE SeqsUpTo(_, _)
\* the sequences over S of length at most n
SeqsUpTo(S, n) ==
    IF n = 0 THEN {<<>>}
    ELSE SeqsUpTo(S, n - 1)
         \cup {Append(q, x) : q \in {r \in SeqsUpTo(S, n - 1) : Len(r) = n - 1}, x \in S}

\* the page when the script is loaded: the observer is registered, the
\* timer of the initial pass is armed
Init ==
    /\ FnInit
    /\ trees \in SeqsUpTo(NodePool, MaxInitNodes)
    /\ pending = <<>>
    /\ timerFired = FALSE
    /\ hostAdds = 0
    /\ errors = 0
    /\ writes = 0
    /\ win \in Windows
    /\ events = <<>>
    /\ unvisited = 0

\* the state a finished handler leaves
Finish(st) ==
    /\ trees' = st.trees
    /\ pending' = st.pending
    /\ errors' = st.errors
    /\ writes' = st.writes
    /\ events' = st.calls
    /\ unvisited' = Len(st.work)

\* the host page renders a message: a task of the page, run when no
\* observer callback is due
HostAdd ==
    /\ pending = <<>>
    /\ hostAdds < MaxHostAdds
    /\ \E n \in NodePool :
          /\ trees' = Append(trees, n)
          /\ pending' = <<[t |-> Len(trees) + 1, path |-> <<>>]>>
    /\ hostAdds' = hostAdds + 1
    /\ events' = <<>>
    /\ unvisited' = 0
    /\ UNCHANGED <<timerFired, errors, writes, win>>

\* setTimeout(initialPass, 500) fires
InitialPass ==
    /\ pending = <<>>
    /\ ~timerFired
    /\ timerFired' = TRUE
    /\ \E k \in 0..MaxThrowAt, now \in Times :
          Finish(Run(Start("initial", AllInitial(trees), k, now)))
    /\ UNCHANGED <<hostAdds, win>>

\* the MutationObserver callback is delivered the queued records
ObserverCallback ==
    /\ pending # <<>>
    /\ \E k \in 0..MaxThrowAt, now \in Times :
          Finish(Run(Start("observer", pending, k, now)))
    /\ UNCHANGED <<timerFired, hostAdds, win>>

Next ==
    \/ HostAdd /\ UNCHANGED fnVars
    \/ InitialPass /\ UNCHANGED fnVars
    \/ ObserverCallback /\ UNCHANGED fnVars

Spec == Init /\ [][Next]_vars

\* the callback is due: records are queued
CallbackDue == pending # <<>>

\* the timer of the initial pass is due
TimerDue == pending = <<>> /\ ~timerFired

\* The callback is a microtask and the timer fires: both are run once due.
\* This is WF_vars(ObserverCallback) /\ WF_vars(InitialPass) written out,
\* with ENABLED of each action (a handler runs to its end from any state
\* and leaves a changed state) given by the guard of the action.
FairSpec ==
    /\ Spec
    /\ ([]<>~CallbackDue \/ []<><<ObserverCallback /\ UNCHANGED fnVars>>_vars)
    /\ ([]<>~TimerDue \/ []<><<InitialPass /\ UNCHANGED fnVars>>_vars)

\* the page is not modelled while the functions are called directly
DomIdle ==
    /\ trees = <<>>
    /\ pending = <<>>
    /\ timerFired = FALSE
    /\ hostAdds = 0
    /\ errors = 0
    /\ writes = 0
    /\ win = (CHOOSE w \in Windows : GetCharacterOrPlaceholder(w) = "{{char}}")
    /\ events = <<>>
    /\ unvisited = 0

\* before the first call, with no page
FnStart == FnInit /\ DomIdle

FnSpec == FnStart /\ [][FnNext]_vars

---------------------------------------------------------------------------
(* Properties.  The notions the statements use are defined here on their   *)
(* own: the marker as the documentation writes it, a line of the form      *)
(* "name: message", an element of class chatbox or chat-body.              *)

\* the number of places pat occurs in s
Occurrences(pat, s) == Cardinality({i \in 1..Len(s) : At(s, i, pat)})

Contains(s, pat) == \E i \in 1..Len(s) : At(s, i, pat)

\* a and b are equal up to the case of their letters
EqualIgnoringCase(a, b) ==
    /\ Len(a) = Len(b)
    /\ \A i \in 1..Len(a) : LowerCh(Ch(a, i)) = LowerCh(Ch(b, i))

\* the trimmed line has a colon with a character before it and a
\* non-blank character after it
IsMessageLine(raw) ==
    /\ Colons(Trim(raw)) # {}
    /\ Min(Colons(Trim(raw))) > 1
    /\ Trim(From(Trim(raw), Min(Colons(Trim(raw))) + 1)) # ""

\* the trimmed text before the first colon of a line
NameOf(raw) == Trim(Sub(Trim(raw), 1, Min(Colons(Trim(raw))) - 1))

\* the trimmed text after the first colon of a line
TextOf(raw) == Trim(From(Trim(raw), Min(Colons(Trim(raw))) + 1))

\* a line that is neither blank nor of the form "name: message"
IsContinuationLine(raw) == Trim(raw) # "" /\ ~IsMessageLine(raw)

\* the lines of the form "name: message" among lines, in order
MessageLines(lines) == SelectSeq(lines, IsMessageLine)

RECURSIVE LinesOf(_)
\* the lines of a text
LinesOf(s) ==
    IF IndexFrom(s, "\n", 1) = 0 THEN <<s>>
    ELSE <<Sub(s, 1, IndexFrom(s, "\n", 1) - 1)>>
         \o LinesOf(From(s, IndexFrom(s, "\n", 1) + 1))

MetaOpen == "<div class=\"meta\">"
MessageOpen == "<div class=\"message "
BubbleOpen == "<div class=\"bubble "
BlockOpen == "<div class=\"texting-block\">"
ChatboxOpen == "<div class=\"texting-block\"><div class=\"chatbox\"><div class=\"header\">"
ChatBodyOpen == "<div class=\"chat-body\">"

\* the messages that open a run of messages of one sender
RunStarts == {i \in 1..Len(parts) : IF i = 1 THEN TRUE ELSE parts[i].name # parts[i - 1].name}

\* C2: a message carries the meta line exactly when it is the first message
\* or its sender name differs from the name of the message before it,
\* whatever lines lie between the two; the rendered HTML holds one meta
\* line per such message.
MetaOnSenderChange ==
    /\ \A i \in 1..Len(parts) : parts[i].repeatMeta <=> i \in RunStarts
    /\ fpc = "rendered" => Occurrences(MetaOpen, htmlOut) = Cardinality(RunStarts)

\* C2 witness: two messages of one sender with a continuation line between
\* them were rendered with one meta line.
MetaOnSenderChangeWitness ==
    /\ fpc = "rendered"
    /\ Len(scanned) = 3
    /\ IsContinuationLine(scanned[2])
    /\ Len(parts) = 2
    /\ parts[1].name = parts[2].name
    /\ Occurrences(MetaOpen, htmlOut) = 1

\* C3: the side of every message is left or right, and it is right exactly
\* when a user name is given and the message's name equals it up to letter
\* case.
SideInvariant ==
    \A i \in 1..Len(parts) :
        /\ parts[i].side \in {"left", "right"}
        /\ parts[i].side = "right"
             <=> (defaultUser # "" /\ EqualIgnoringCase(parts[i].name, defaultUser))

\* C3 witness: a message is on the right though its name also equals the
\* character name, and a message whose name matches nobody is on the left.
SideInvariantWitness ==
    /\ \E i \in 1..Len(parts) :
          /\ parts[i].side = "right"
          /\ parts[i].name # defaultUser
          /\ EqualIgnoringCase(parts[i].name, defaultChar)
    /\ \E i \in 1..Len(parts) :
          /\ parts[i].side = "left"
          /\ ~EqualIgnoringCase(parts[i].name, defaultChar)

\* the class names of the open tag text t, whatever the quotes of the
\* attribute
TagClasses(t) ==
    IF \E i \in 1..Len(t) : AtCI(t, i, " class=")
    THEN LET v == Min({i \in 1..Len(t) : AtCI(t, i, " class=")}) + 7
         IN  IF Ch(t, v) \in {"\"", "'"}
             THEN ClassSet(Sub(t, v + 1, IndexFrom(t, Ch(t, v), v + 1) - 1))
             ELSE ClassSet(Sub(t, v, Len(t) - 1))
    ELSE {}

\* s holds an element whose class attribute names chatbox or chat-body
HasChatElement(s) ==
    \E o \in 1..Len(s) :
        /\ Ch(s, o) = "<"
        /\ Ch(s, o + 1) # "/"
        /\ IndexFrom(s, ">", o) # 0
        /\ TagClasses(Sub(s, o, IndexFrom(s, ">", o))) \cap {"chatbox", "chat-body"} # {}

ParsedInto(inner, block) ==
    /\ At(block, 1, ChatboxOpen)
    /\ Occurrences(ChatBodyOpen, block) = 1
    /\ Occurrences(MessageOpen, block) = Len(MessageLines(LinesOf(inner)))
    /\ Occurrences(BubbleOpen, block) = Len(MessageLines(LinesOf(inner)))
    /\ \A i \in 1..Len(MessageLines(LinesOf(inner))) :
          \E side \in {"left", "right"} :
              Contains(block, BubbleOpen \o side \o "\">"
                              \o EscapeHtml(TextOf(MessageLines(LinesOf(inner))[i])))

SplitOnFirstColon ==
    /\ Len(parts) = Len(MessageLines(scanned))
    /\ \A k \in 1..Len(parts) :
          /\ parts[k].name = NameOf(MessageLines(scanned)[k])
          /\ \/ parts[k].text = TextOf(MessageLines(scanned)[k])
             \/ At(parts[k].text, 1, TextOf(MessageLines(scanned)[k]) \o "\n")
          /\ parts[k].name # ""
          /\ parts[k].text # ""

\* C7 witness: two messages, the second with a later colon inside its text.
SplitOnFirstColonWitness ==
    /\ Len(parts) = 2
    /\ Len(scanned) = 2
    /\ Cardinality(Colons(scanned[2])) = 2
    /\ Contains(parts[2].text, ":")
    /\ ~Contains(parts[2].name, ":")

\* a step of the loop that consumes a continuation line: no message is
\* made, lastSender stays, and the line joins the text of the last message
\* after a newline, if there is a message
ContinuationStep ==
    (Len(scanned') = Len(scanned) + 1 /\ IsContinuationLine(scanned'[Len(scanned')]))
        => /\ lastSender' = lastSender
           /\ parts' = IF Len(parts) = 0 THEN parts
                       ELSE [parts EXCEPT ![Len(parts)].text =
                                @ \o "\n" \o Trim(scanned'[Len(scanned')])]

\* C8: a continuation line makes no message, is appended after a newline to
\* the text of the last message when there is one and dropped otherwise, and
\* changes nothing else; so there are as many messages as lines of the form
\* "name: message".
ContinuationLines ==
    /\ [](Len(parts) = Len(MessageLines(scanned)))
    /\ [][ContinuationStep]_vars

\* C8 witness: a first continuation line was dropped and a later one joined
\* the only message.
ContinuationLinesWitness ==
    /\ Len(scanned) = 3
    /\ IsContinuationLine(scanned[1])
    /\ IsMessageLine(scanned[2])
    /\ IsContinuationLine(scanned[3])
    /\ Len(parts) = 1
    /\ parts[1].text = TextOf(scanned[2]) \o "\n" \o Trim(scanned[3])

---------------------------------------------------------------------------
(* Properties of the page *)

\* the marker [[texting]], in any letter case, is at position i
MarkerAt(s, i) == AtCI(s, i, "[[texting]]")

\* the closing marker [[/texting]] is at position i
EndAt(s, i) == AtCI(s, i, "[[/texting]]")

HasMarker(s) == \E i \in 1..Len(s) : MarkerAt(s, i)

\* a closed span starts at i
SpanAt(s, i) == MarkerAt(s, i) /\ \E j \in (i + 11)..Len(s) : EndAt(s, j)

\* the closed span at i replaced by its block, then the spans after it
RECURSIVE SpansReplaced(_, _, _, _)
SpanReplacedAt(s, pos, i, j, w, now) ==
    Sub(s, pos, i - 1)
    \o BuildTextingBlock(Trim(Sub(s, i + 11, j - 1)), w, now)
    \o SpansReplaced(s, j + 12, w, now)

\* every closed span of s from pos on replaced, each ending at the first
\* closing marker after its start
SpansReplaced(s, pos, w, now) ==
    IF \E i \in pos..Len(s) : SpanAt(s, i)
    THEN SpanReplacedAt(s, pos, Min({i \in pos..Len(s) : SpanAt(s, i)}),
             Min({j \in (Min({i \in pos..Len(s) : SpanAt(s, i)}) + 11)..Len(s) : EndAt(s, j)}),
             w, now)
    ELSE From(s, pos)

\* everything from the first marker on replaced by one block
TailReplaced(s, i, w, now) ==
    Sub(s, 1, i - 1) \o BuildTextingBlock(Trim(From(s, i + 11)), w, now)

\* the HTML the documented replacement gives for an HTML with a marker
MarkersReplaced(s, w, now) ==
    IF \E i \in 1..Len(s) : SpanAt(s, i) THEN SpansReplaced(s, 1, w, now)
    ELSE TailReplaced(s, Min({i \in 1..Len(s) : MarkerAt(s, i)}), w, now)

\* the visits of candidate elements the last handler made
VisitsMade ==
    UNION {{events[i].visited[j] : j \in 1..Len(events[i].visited)} :
              i \in 1..Len(events)}

\* C1 as stated: a visited element whose HTML holds the marker leaves the
\* visit with every closed span, or else everything from the single marker
\* on, replaced by its block, the rest kept.
MarkerReplacement ==
    \A v \in VisitsMade :
        HasMarker(v.before)
            => \E now \in Times : v.after = MarkersReplaced(v.before, win, now)

\* C6: an exception raised in a visit is logged and processNode returns with
\* the DOM as the exception found it, earlier writes included; no candidate
\* is visited twice, and the handler passes every node of its list to its
\* loop.
ErrorsSwallowed ==
    /\ unvisited = 0
    /\ Cardinality({i \in 1..Len(events) : events[i].threw}) <= errors
    /\ \A i \in 1..Len(events) :
          /\ events[i].threw => (events[i].logged /\ events[i].atReturn = events[i].atThrow)
          /\ Len(events[i].visited) + (IF events[i].threw THEN 1 ELSE 0)
                <= events[i].candidates

\* C6 witness: after a processNode call that failed, a later call of the
\* same handler rewrote an element.
ErrorsSwallowedWitness ==
    \E i \in 1..Len(events), j \in 1..Len(events) :
        /\ i < j
        /\ events[i].threw
        /\ \E x \in 1..Len(events[j].visited) : events[j].visited[x].wrote

\* C9 as stated: innerHTML is assigned only for an element whose HTML holds
\* the marker; an element without it, or with empty HTML, is left as it was.
Frame ==
    \A v \in VisitsMade :
        /\ v.wrote => HasMarker(v.before)
        /\ ~HasMarker(v.before) => v.after = v.before

\* processNode of any element of the document would change nothing
Fixpoint ==
    \A t \in 1..Len(trees) :
        trees[t].attached =>
            \A r \in {[t |-> t, path |-> <<>>]}
                     \cup {[t |-> t, path |-> DescendantsOf(trees, [t |-> t, path |-> <<>>])[i].path] :
                              i \in 1..Len(DescendantsOf(trees, [t |-> t, path |-> <<>>]))} :
                \A now \in Times :
                    InnerHTML(trees, r) = ""
                    \/ Replaced(InnerHTML(trees, r), win, now) = InnerHTML(trees, r)

GuardedWrites ==
    \A v \in VisitsMade :
        /\ v.wrote <=> v.after # v.before
        /\ (~BlockTest(v.before) /\ ~SingleTest(v.before)) => ~v.wrote

============================================================================
